---------------------------- MODULE Spec2Model ----------------------------
(***************************************************************************)
(* Model of SyllabusAnalyzer (ml-services/src/utils/syllabus_analyzer.py): *)
(* the bundled curriculum catalog, get_syllabus, select_topics,            *)
(* get_question_distribution, validate_paper_requirements,                 *)
(* get_learning_objectives and generate_paper_instructions.                *)
(*                                                                         *)
(* Spec         the analyzer called with every argument of AllInputs       *)
(* SpecEntries  validate_paper_requirements on catalogs whose Mathematics  *)
(*              entry has 0..MaxUnits units or no "units" key              *)
(* SpecCallers  a caller that keeps an outcome, repeats calls and appends  *)
(*              to the topics list of a returned allocation                *)
(* SpecPatterns get_question_distribution on catalogs whose Mathematics    *)
(*              entry has a paper pattern of 0..MaxSections sections       *)
(*                                                                         *)
(* Python values are modelled as follows.                                  *)
(*   dict with fixed keys      record; an optional key is a field that the *)
(*                             record may lack (DictGet gives the default) *)
(*   dict iterated in order    sequence of [section, config] / [section,   *)
(*                             value] pairs in insertion order             *)
(*   list                      sequence; the topics list of a unit is one  *)
(*                             object shared by the catalog and the values *)
(*                             returned for the unit (CallerWritesTopics)  *)
(*   Optional[List[str]]       [is_none |-> BOOLEAN, items |-> sequence]   *)
(*   float                     [neg, bits, exp]: (-1)^neg * bits * 2^exp,  *)
(*                             bits a bit sequence, least significant      *)
(*                             first, of at most 53 significant bits       *)
(*   difficulty fractions      integers, in percent                        *)
(***************************************************************************)
EXTENDS Integers, Sequences, FiniteSets, TLC

\* ------------------------------------------------------------------ bounds

\* total_marks ranges over -NegMarks .. MaxMarks
NegMarks == 2
MaxMarks == 81
\* topic_preferences lists have at most MaxPrefs elements
MaxPrefs == 2
\* a caller writes into returned values at most MaxMutations times
MaxMutations == 1
\* drawn paper patterns have at most MaxSections sections, and are filled with
\* budgets of 0..MaxBudget marks
MaxSections == 3
MaxBudget == 16
\* catalogs with shorter entries keep at most MaxUnits units of an entry
MaxUnits == 4

\* IEEE-754 binary64 significand width (CPython float)
MantissaBits == 53

\* ----------------------------------------------------------------- catalog

CBSE_class_10_Mathematics ==
    [units |-> <<
        [name |-> "Real Numbers",
         topics |-> <<"Euclid's Division Lemma", "Fundamental Theorem of Arithmetic", "Irrational Numbers">>,
         weightage |-> 6,
         difficulty |-> "medium",
         question_types |-> <<"mcq", "short_answer", "long_answer">>],
        [name |-> "Polynomials",
         topics |-> <<"Zeroes of Polynomial", "Relationship between Zeroes and Coefficients", "Division Algorithm">>,
         weightage |-> 4,
         difficulty |-> "medium",
         question_types |-> <<"mcq", "short_answer", "long_answer">>],
        [name |-> "Pair of Linear Equations",
         topics |-> <<"Graphical Method", "Algebraic Methods", "Cross Multiplication Method">>,
         weightage |-> 6,
         difficulty |-> "medium",
         question_types |-> <<"mcq", "short_answer", "long_answer">>],
        [name |-> "Quadratic Equations",
         topics |-> <<"Solution by Factorization", "Solution by Completing Square", "Quadratic Formula">>,
         weightage |-> 6,
         difficulty |-> "hard",
         question_types |-> <<"mcq", "short_answer", "long_answer">>],
        [name |-> "Arithmetic Progressions",
         topics |-> <<"General Term", "Sum of n Terms", "Applications">>,
         weightage |-> 4,
         difficulty |-> "medium",
         question_types |-> <<"mcq", "short_answer", "long_answer">>],
        [name |-> "Triangles",
         topics |-> <<"Similarity of Triangles", "Pythagoras Theorem", "Basic Proportionality Theorem">>,
         weightage |-> 6,
         difficulty |-> "medium",
         question_types |-> <<"mcq", "short_answer", "long_answer">>],
        [name |-> "Coordinate Geometry",
         topics |-> <<"Distance Formula", "Section Formula", "Area of Triangle">>,
         weightage |-> 4,
         difficulty |-> "medium",
         question_types |-> <<"mcq", "short_answer", "long_answer">>],
        [name |-> "Trigonometry",
         topics |-> <<"Trigonometric Ratios", "Trigonometric Identities", "Applications">>,
         weightage |-> 5,
         difficulty |-> "hard",
         question_types |-> <<"mcq", "short_answer", "long_answer">>],
        [name |-> "Applications of Trigonometry",
         topics |-> <<"Heights and Distances", "Real-life Applications">>,
         weightage |-> 4,
         difficulty |-> "hard",
         question_types |-> <<"mcq", "short_answer", "long_answer">>],
        [name |-> "Circles",
         topics |-> <<"Tangent to Circle", "Number of Tangents", "Properties of Tangents">>,
         weightage |-> 4,
         difficulty |-> "medium",
         question_types |-> <<"mcq", "short_answer", "long_answer">>],
        [name |-> "Constructions",
         topics |-> <<"Division of Line Segment", "Construction of Tangents">>,
         weightage |-> 3,
         difficulty |-> "medium",
         question_types |-> <<"long_answer">>],
        [name |-> "Areas Related to Circles",
         topics |-> <<"Area of Sector", "Area of Segment", "Areas of Combinations">>,
         weightage |-> 3,
         difficulty |-> "medium",
         question_types |-> <<"mcq", "short_answer", "long_answer">>],
        [name |-> "Surface Areas and Volumes",
         topics |-> <<"Surface Area", "Volume", "Combinations of Solids">>,
         weightage |-> 4,
         difficulty |-> "medium",
         question_types |-> <<"mcq", "short_answer", "long_answer">>],
        [name |-> "Statistics",
         topics |-> <<"Mean", "Median", "Mode", "Cumulative Frequency">>,
         weightage |-> 4,
         difficulty |-> "easy",
         question_types |-> <<"mcq", "short_answer", "long_answer">>],
        [name |-> "Probability",
         topics |-> <<"Theoretical Probability", "Experimental Probability">>,
         weightage |-> 3,
         difficulty |-> "easy",
         question_types |-> <<"mcq", "short_answer", "long_answer">>]
      >>,
     total_marks |-> 80,
     duration |-> "3 hours",
     paper_pattern |-> <<
        [section |-> "section_a",
         config |-> [type |-> "mcq", questions |-> 20, marks_per_question |-> 1]],
        [section |-> "section_b",
         config |-> [type |-> "short_answer", questions |-> 6, marks_per_question |-> 2]],
        [section |-> "section_c",
         config |-> [type |-> "short_answer", questions |-> 8, marks_per_question |-> 3]],
        [section |-> "section_d",
         config |-> [type |-> "long_answer", questions |-> 6, marks_per_question |-> 4]]
      >>]

CBSE_class_10_Science ==
    [units |-> <<
        [name |-> "Chemical Reactions and Equations",
         topics |-> <<"Chemical Changes", "Balancing Equations", "Types of Reactions">>,
         weightage |-> 5,
         difficulty |-> "medium"],
        [name |-> "Acids, Bases and Salts",
         topics |-> <<"pH Scale", "Neutralization", "Salts">>,
         weightage |-> 5,
         difficulty |-> "medium"],
        [name |-> "Metals and Non-metals",
         topics |-> <<"Physical Properties", "Chemical Properties", "Reactivity Series">>,
         weightage |-> 5,
         difficulty |-> "medium"],
        [name |-> "Carbon and its Compounds",
         topics |-> <<"Covalent Bonding", "Hydrocarbons", "Functional Groups">>,
         weightage |-> 4,
         difficulty |-> "hard"],
        [name |-> "Life Processes",
         topics |-> <<"Nutrition", "Respiration", "Transportation", "Excretion">>,
         weightage |-> 6,
         difficulty |-> "medium"],
        [name |-> "Control and Coordination",
         topics |-> <<"Nervous System", "Endocrine System", "Plant Hormones">>,
         weightage |-> 4,
         difficulty |-> "medium"],
        [name |-> "How do Organisms Reproduce",
         topics |-> <<"Asexual Reproduction", "Sexual Reproduction", "Reproductive Health">>,
         weightage |-> 4,
         difficulty |-> "medium"],
        [name |-> "Heredity and Evolution",
         topics |-> <<"Inheritance", "Variation", "Evolution">>,
         weightage |-> 4,
         difficulty |-> "hard"],
        [name |-> "Light - Reflection and Refraction",
         topics |-> <<"Reflection", "Refraction", "Lenses", "Mirrors">>,
         weightage |-> 5,
         difficulty |-> "hard"],
        [name |-> "Human Eye and Colourful World",
         topics |-> <<"Eye Structure", "Defects", "Dispersion", "Scattering">>,
         weightage |-> 3,
         difficulty |-> "medium"],
        [name |-> "Electricity",
         topics |-> <<"Ohm's Law", "Resistance", "Series and Parallel Circuits">>,
         weightage |-> 5,
         difficulty |-> "hard"],
        [name |-> "Magnetic Effects of Electric Current",
         topics |-> <<"Magnetic Field", "Electromagnetic Induction", "Electric Motor">>,
         weightage |-> 4,
         difficulty |-> "medium"],
        [name |-> "Sources of Energy",
         topics |-> <<"Conventional Sources", "Non-conventional Sources", "Environmental Impact">>,
         weightage |-> 3,
         difficulty |-> "easy"],
        [name |-> "Our Environment",
         topics |-> <<"Ecosystem", "Food Chains", "Environmental Problems">>,
         weightage |-> 3,
         difficulty |-> "easy"],
        [name |-> "Management of Natural Resources",
         topics |-> <<"Conservation", "Sustainable Development", "Local Management">>,
         weightage |-> 3,
         difficulty |-> "easy"]
      >>,
     total_marks |-> 80,
     duration |-> "3 hours"]

ICSE_class_10_Mathematics ==
    [units |-> <<
        [name |-> "Commercial Mathematics",
         topics |-> <<"Compound Interest", "Shares and Dividends", "Banking">>,
         weightage |-> 15,
         difficulty |-> "medium"],
        [name |-> "Algebra",
         topics |-> <<"Linear Inequations", "Quadratic Equations", "Ratio and Proportion">>,
         weightage |-> 25,
         difficulty |-> "medium"],
        [name |-> "Geometry",
         topics |-> <<"Similarity", "Loci", "Circles">>,
         weightage |-> 20,
         difficulty |-> "medium"],
        [name |-> "Mensuration",
         topics |-> <<"Area and Volume", "Surface Area", "Combinations">>,
         weightage |-> 15,
         difficulty |-> "medium"],
        [name |-> "Trigonometry",
         topics |-> <<"Trigonometric Ratios", "Heights and Distances">>,
         weightage |-> 15,
         difficulty |-> "hard"],
        [name |-> "Statistics",
         topics |-> <<"Mean", "Median", "Mode", "Histograms">>,
         weightage |-> 10,
         difficulty |-> "easy"]
      >>,
     total_marks |-> 80,
     duration |-> "2.5 hours"]

\* Mutant of LoadSyllabusData: the first ICSE unit is declared with weightage 0.
LoadSyllabusData_ZeroWeightage ==
    [CBSE |-> [class_10 |-> [Mathematics |-> CBSE_class_10_Mathematics,
                             Science     |-> CBSE_class_10_Science]],
     ICSE |-> [class_10 |-> [Mathematics |->
                  [ICSE_class_10_Mathematics EXCEPT !.units[1].weightage = 0]]]]

\* _load_syllabus_data: board -> class level -> subject -> entry
LoadSyllabusData ==
    [CBSE |-> [class_10 |-> [Mathematics |-> CBSE_class_10_Mathematics,
                             Science     |-> CBSE_class_10_Science]],
     ICSE |-> [class_10 |-> [Mathematics |-> ICSE_class_10_Mathematics]]]

\* ------------------------------------------------------- Python primitives

\* the empty dict {} and the empty list []
EmptyDict == <<>>

\* d.get(k, default)
DictGet(d, k, default) == IF k \in DOMAIN d THEN d[k] ELSE default

\* truthiness of a dict or list: not empty
Truthy(d) == DOMAIN d # {}

\* x in xs, for a list xs
InList(x, xs) == \E i \in 1..Len(xs) : xs[i] = x

\* [unit for unit in units if unit["name"] in names]
RECURSIVE UnitsNamedIn(_, _)
UnitsNamedIn(units, names) ==
    IF units = <<>> THEN <<>>
    ELSE IF InList(Head(units).name, names)
         THEN <<Head(units)>> \o UnitsNamedIn(Tail(units), names)
         ELSE UnitsNamedIn(Tail(units), names)

\* sum(unit["weightage"] for unit in units)
RECURSIVE SumWeightage(_)
SumWeightage(units) ==
    IF units = <<>> THEN 0 ELSE Head(units).weightage + SumWeightage(Tail(units))

Abs(n) == IF n < 0 THEN 0 - n ELSE n

\* --------------------------------------------------------- float arithmetic
\* A float is [neg, bits, exp], the value (-1)^neg * bits * 2^exp. Bit sequences are
\* least significant bit first and end in a 1 (<<>> is 0). The arithmetic works on
\* chunks of ChunkBits bits (ChunkBase = 2^ChunkBits) to keep the numbers small.

ChunkBits == 9
ChunkBase == 2^ChunkBits

\* number of bits of a natural number
BitLength(n) == CHOOSE len \in 0..30 : n < 2^len /\ (len = 0 \/ n >= 2^(len - 1))

\* the bits of a natural number
NatBits(n) == [i \in 1..BitLength(n) |-> (n \div 2^(i - 1)) % 2]

\* the natural number of a (short) bit sequence
RECURSIVE BitsNat(_)
BitsNat(bits) == IF bits = <<>> THEN 0 ELSE Head(bits) + 2 * BitsNat(Tail(bits))

\* bit i of a bit sequence, 0 above its end
BitAt(bits, i) == IF i <= Len(bits) THEN bits[i] ELSE 0

\* bits without the zeros above its highest 1
TrimBits(bits) ==
    LET ones == {i \in 1..Len(bits) : bits[i] = 1}
    IN  IF ones = {} THEN <<>>
        ELSE SubSeq(bits, 1, CHOOSE i \in ones : \A j \in ones : j <= i)

\* bits + 1
IncBits(bits) ==
    LET zeros == {i \in 1..Len(bits) : bits[i] = 0}
    IN  IF zeros = {} THEN [i \in 1..(Len(bits) + 1) |-> IF i > Len(bits) THEN 1 ELSE 0]
        ELSE LET z == CHOOSE i \in zeros : \A j \in zeros : i <= j
             IN  [i \in 1..Len(bits) |-> IF i < z THEN 0 ELSE IF i = z THEN 1 ELSE bits[i]]

\* chunk c (from 1, least significant first) of a bit sequence, as a number
ChunkAt(bits, c) ==
    LET o == ChunkBits * (c - 1)
    IN  BitAt(bits, o + 1) + 2 * BitAt(bits, o + 2) + 4 * BitAt(bits, o + 3)
        + 8 * BitAt(bits, o + 4) + 16 * BitAt(bits, o + 5) + 32 * BitAt(bits, o + 6)
        + 64 * BitAt(bits, o + 7) + 128 * BitAt(bits, o + 8) + 256 * BitAt(bits, o + 9)

\* the bit sequence of a sequence of chunks, least significant chunk first
ChunksBits(chunks) ==
    [i \in 1..(ChunkBits * Len(chunks)) |->
        (chunks[((i - 1) \div ChunkBits) + 1] \div 2^((i - 1) % ChunkBits)) % 2]

\* chunks * n + carry, chunk by chunk; the last carry is not reduced
RECURSIVE MulChunks(_, _, _)
MulChunks(chunks, n, carry) ==
    IF chunks = <<>> THEN [chunks |-> <<>>, carry |-> carry]
    ELSE LET d    == Head(chunks) * n + carry
             rest == MulChunks(Tail(chunks), n, d \div ChunkBase)
         IN  [chunks |-> <<d % ChunkBase>> \o rest.chunks, carry |-> rest.carry]

\* bits * n, for a natural number n
MulBits(bits, n) ==
    LET nchunks == (Len(bits) + ChunkBits - 1) \div ChunkBits
        p       == MulChunks([c \in 1..nchunks |-> ChunkAt(bits, c)], n, 0)
    IN  TrimBits(ChunksBits(p.chunks) \o NatBits(p.carry))

\* The next n chunks of the quotient r / b after the point, most
\* significant first, and the remainder left.
RECURSIVE DivChunks(_, _, _)
DivChunks(r, b, n) ==
    IF n = 0 THEN [chunks |-> <<>>, rem |-> r]
    ELSE LET d    == r * ChunkBase
             rest == DivChunks(d % b, b, n - 1)
         IN  [chunks |-> <<d \div b>> \o rest.chunks, rem |-> rest.rem]

Reverse(s) == [i \in 1..Len(s) |-> s[Len(s) + 1 - i]]

FloatZero == [neg |-> FALSE, bits |-> <<>>, exp |-> 0]

\* Round an exact magnitude bits * 2^exp (plus a discarded tail below it:
\* sticky says the tail is not zero) to MantissaBits significant bits, ties to even.
RoundNearestEven(neg, bits, exp, sticky) ==
    LET d == Len(bits) - MantissaBits
    IN  IF d <= 0 THEN [neg |-> neg, bits |-> bits, exp |-> exp]
        ELSE LET kept  == SubSeq(bits, d + 1, Len(bits))
                 guard == bits[d]
                 rest  == sticky \/ \E i \in 1..(d - 1) : bits[i] = 1
                 up    == guard = 1 /\ (rest \/ kept[1] = 1)
             IN  [neg  |-> neg,
                  bits |-> IF up THEN IncBits(kept) ELSE kept,
                  exp  |-> exp + d]

\* number of chunks after the point that PyTrueDiv generates: with the leading 1
\* they are more than MantissaBits + 1 bits
FractionChunks == (MantissaBits + 1) \div ChunkBits + 1

\* int / int (true division), b # 0: the correctly rounded quotient.
\* |a| is scaled by 2^k so that the quotient is at least 1.
PyTrueDiv(a, b) ==
    IF a = 0 THEN FloatZero
    ELSE LET neg  == (a < 0) # (b < 0)
             k    == CHOOSE j \in 0..30 :
                        Abs(a) * 2^j >= Abs(b) /\ (j = 0 \/ Abs(a) * 2^(j - 1) < Abs(b))
             num  == Abs(a) * 2^k
             q    == DivChunks(num % Abs(b), Abs(b), FractionChunks)
             bits == ChunksBits(Reverse(q.chunks)) \o NatBits(num \div Abs(b))
         IN  RoundNearestEven(neg, bits, 0 - (ChunkBits * FractionChunks) - k, q.rem # 0)

\* float * int: the int converts exactly, the product is rounded
PyFloatMulInt(x, n) ==
    IF x.bits = <<>> \/ n = 0 THEN FloatZero
    ELSE RoundNearestEven(x.neg # (n < 0), MulBits(x.bits, Abs(n)), x.exp, FALSE)

\* int(float): truncation toward zero
PyInt(x) ==
    LET mag == IF x.exp >= 0 THEN BitsNat(x.bits) * 2^(x.exp)
               ELSE IF 0 - x.exp >= Len(x.bits) THEN 0
               ELSE BitsNat(SubSeq(x.bits, 1 - x.exp, Len(x.bits)))
    IN  IF x.neg THEN 0 - mag ELSE mag

\* ------------------------------------------------------------------ inputs

Boards == {"CBSE", "ICSE", "IB"}
ClassLevels == {"class_10", "class_9"}
Subjects == {"Mathematics", "Science"}
TotalMarks == (0 - NegMarks)..MaxMarks
PrefNames == {"Real Numbers", "Trigonometry", "Unknown Unit"}
Durations == {"3 hours", "2 hours", "2.5 hours"}
DifficultyDistributions ==
    {[easy |-> 30, medium |-> 50, hard |-> 20],
     [easy |-> 0, medium |-> 100, hard |-> 0]}

SeqsUpTo(S, n) == UNION {[1..k -> S] : k \in 0..n}

None == [is_none |-> TRUE, items |-> <<>>]
Some(items) == [is_none |-> FALSE, items |-> items]
TopicPreferences == {None} \cup {Some(s) : s \in SeqsUpTo(PrefNames, MaxPrefs)}

\* The arguments the calls are made with.
AllInputs ==
    [boards |-> Boards, class_levels |-> ClassLevels, subjects |-> Subjects,
     total_marks |-> TotalMarks, topic_preferences |-> TopicPreferences,
     durations |-> Durations, difficulty_distributions |-> DifficultyDistributions,
     topics |-> SeqsUpTo(PrefNames, MaxPrefs)]

\* `if topic_preferences:` -- None and [] are falsy
PrefsTruthy(topic_preferences) ==
    ~topic_preferences.is_none /\ topic_preferences.items # <<>>

\* ------------------------------------------------------------------- state

VARIABLES
    syllabus_data,          \* self.syllabus_data
    pc,                     \* "idle", "select_topics" (the loop of line 378),
                            \* "get_question_distribution" (the loop of line 399), "returned"
    call,                   \* the running call: its name and arguments
    selected_units,         \* select_topics locals
    total_weightage,
    topic_distribution,
    paper_pattern,          \* get_question_distribution locals
    question_distribution,
    remaining_marks,
    idx,                    \* position of the running for loop
    outcome,                \* how the call ended: a returned value or a raised exception
    caller                  \* the caller: the result it has kept from an earlier call and
                            \* how often it has written into a returned value

vars == <<syllabus_data, pc, call, selected_units, total_weightage, topic_distribution,
          paper_pattern, question_distribution, remaining_marks, idx, outcome, caller>>

NoCall == [op |-> "none"]
NoOutcome == [kind |-> "none"]
Return(value) == [kind |-> "return", value |-> value]
Raise(exc) == [kind |-> "raise", exc |-> exc]

ClearSelectTopics ==
    /\ selected_units' = <<>>
    /\ total_weightage' = 0
    /\ topic_distribution' = <<>>

ClearQuestionDistribution ==
    /\ paper_pattern' = <<>>
    /\ question_distribution' = <<>>
    /\ remaining_marks' = 0

\* lines 476-490: a caller that has kept nothing and written nothing
NothingKept == [call |-> NoCall, outcome |-> NoOutcome, mutations |-> 0]
NewCaller == [kept |-> NothingKept, mutations |-> 0]

\* Everything but the catalog, after construction (lines 20-23).
InitRest ==
    /\ pc = "idle"
    /\ call = NoCall
    /\ selected_units = <<>>
    /\ total_weightage = 0
    /\ topic_distribution = <<>>
    /\ paper_pattern = <<>>
    /\ question_distribution = <<>>
    /\ remaining_marks = 0
    /\ idx = 0
    /\ outcome = NoOutcome
    /\ caller = NewCaller

Init ==
    /\ syllabus_data = LoadSyllabusData
    /\ InitRest

\* ------------------------------------------------------------ get_syllabus

\* Mutant of GetSyllabus: the `if not syllabus` check left out.
GetSyllabus_NoCheck(data, board, class_level, subject) ==
    Return(DictGet(DictGet(DictGet(data, board, EmptyDict),
                           class_level, EmptyDict), subject, EmptyDict))

\* Mutant of GetSyllabus: only an unknown board is reported, an unknown class level
\* or subject gives the empty dict.
GetSyllabus_BoardCheckOnly(data, board, class_level, subject) ==
    IF board \notin DOMAIN data THEN Raise("ValueError")
    ELSE Return(DictGet(DictGet(data[board], class_level, EmptyDict),
                        subject, EmptyDict))

\* get_syllabus: the entry, or ValueError when the lookup gives an empty dict
GetSyllabus(data, board, class_level, subject) ==
    LET syllabus == DictGet(DictGet(DictGet(data, board, EmptyDict),
                                    class_level, EmptyDict), subject, EmptyDict)
    IN  IF ~Truthy(syllabus) THEN Raise("ValueError") ELSE Return(syllabus)

\* `d.setdefault(k, {})`: the key is inserted when it is absent
SetDefault(d, k) ==
    IF k \in DOMAIN d THEN d
    ELSE [x \in DOMAIN d \cup {k} |-> IF x = k THEN EmptyDict ELSE d[x]]

\* Mutant of CatalogAfterLookup: `setdefault` for the first two `get`s, so that a
\* lookup of an absent board or class level inserts it.
CatalogAfterLookup_SetDefault(data, board, class_level, subject) ==
    LET with_board == SetDefault(data, board)
    IN  [with_board EXCEPT ![board] = SetDefault(@, class_level)]

\* Mutant of CatalogAfterLookup: `pop` for the last `get`, so that a lookup takes
\* the entry out of the catalog.
CatalogAfterLookup_Pop(data, board, class_level, subject) ==
    IF /\ board \in DOMAIN data
       /\ class_level \in DOMAIN data[board]
    THEN [data EXCEPT ![board][class_level] =
              [s \in DOMAIN @ \ {subject} |-> @[s]]]
    ELSE data

\* line 354: self.syllabus_data after the lookup; `get` inserts nothing
CatalogAfterLookup(data, board, class_level, subject) == data

get_syllabus(inputs) ==
    /\ pc = "idle"
    /\ \E board \in inputs.boards, class_level \in inputs.class_levels,
          subject \in inputs.subjects :
          /\ call' = [op |-> "get_syllabus", board |-> board,
                      class_level |-> class_level, subject |-> subject]
          /\ outcome' = GetSyllabus(syllabus_data, board, class_level, subject)
          /\ syllabus_data' = CatalogAfterLookup(syllabus_data, board, class_level, subject)
    /\ pc' = "returned"
    /\ UNCHANGED <<selected_units, total_weightage, topic_distribution,
                   paper_pattern, question_distribution, remaining_marks, idx>>
    /\ UNCHANGED caller

\* ----------------------------------------------------------- select_topics

\* Mutant of SelectUnits: `if topic_preferences is not None`, so that [] selects nothing.
SelectUnits_NotNoneTest(units, topic_preferences) ==
    IF ~topic_preferences.is_none
    THEN UnitsNamedIn(units, topic_preferences.items)
    ELSE units

\* [unit for name in names for unit in units if unit["name"] == name]
RECURSIVE UnitsInOrderOf(_, _)
UnitsInOrderOf(names, units) ==
    IF names = <<>> THEN <<>>
    ELSE UnitsNamedIn(units, <<Head(names)>>) \o UnitsInOrderOf(Tail(names), units)

\* Mutant of SelectUnits: the selection follows the preference list, not the catalog.
SelectUnits_PreferenceOrder(units, topic_preferences) ==
    IF PrefsTruthy(topic_preferences)
    THEN UnitsInOrderOf(topic_preferences.items, units)
    ELSE units

\* lines 369-372: the units the allocation runs over
SelectUnits(units, topic_preferences) ==
    IF PrefsTruthy(topic_preferences)
    THEN UnitsNamedIn(units, topic_preferences.items)
    ELSE units

\* Mutant of TotalWeightage: the sum runs over all units of the syllabus.
TotalWeightage_AllUnits(units, selected) == SumWeightage(units)

\* line 375: total_weightage = sum(unit["weightage"] for unit in selected_units)
TotalWeightage(units, selected) == SumWeightage(selected)

\* Mutant of MarksAllocation: the weightage read as a percentage of the paper.
MarksAllocation_Percent(weightage, total_w, total_marks) ==
    (weightage * total_marks) \div 100

\* Mutant of MarksAllocation: the share taken by floor division (//), where the
\* code divides truly (/).
MarksAllocation_FloorDivision(weightage, total_w, total_marks) ==
    (weightage \div total_w) * total_marks

\* Mutant of MarksAllocation: the share of the other units, (W - w) / W, taken for
\* the share w / W of the unit.
MarksAllocation_ComplementShare(weightage, total_w, total_marks) ==
    ((total_w - weightage) * total_marks) \div total_w

\* line 379: int((unit["weightage"] / total_weightage) * total_marks)
MarksAllocation(weightage, total_w, total_marks) ==
    PyInt(PyFloatMulInt(PyTrueDiv(weightage, total_w), total_marks))

\* lines 380-386: the dict appended for a unit
TopicAllocation(unit, marks_allocation) ==
    [unit_name       |-> unit.name,
     topics          |-> unit.topics,
     allocated_marks |-> marks_allocation,
     difficulty      |-> unit.difficulty,
     question_types  |-> DictGet(unit, "question_types",
                                 <<"mcq", "short_answer", "long_answer">>)]

\* lines 365-376: lookup, selection, weightage sum
select_topics_call(inputs) ==
    /\ pc = "idle"
    /\ \E board \in inputs.boards, class_level \in inputs.class_levels,
          subject \in inputs.subjects,
          total_marks \in inputs.total_marks, topic_preferences \in inputs.topic_preferences :
          LET syllabus == GetSyllabus(syllabus_data, board, class_level, subject)
              units    == DictGet(syllabus.value, "units", <<>>)
              selected == SelectUnits(units, topic_preferences)
          IN  /\ call' = [op |-> "select_topics", board |-> board,
                          class_level |-> class_level, subject |-> subject,
                          total_marks |-> total_marks,
                          topic_preferences |-> topic_preferences]
              /\ syllabus_data' =
                    CatalogAfterLookup(syllabus_data, board, class_level, subject)
              /\ IF syllabus.kind = "raise"
                 THEN /\ outcome' = syllabus
                      /\ pc' = "returned"
                      /\ UNCHANGED <<selected_units, total_weightage,
                                     topic_distribution, idx>>
                 ELSE /\ selected_units' = selected
                      /\ total_weightage' = TotalWeightage(units, selected)
                      /\ topic_distribution' = <<>>
                      /\ idx' = 1
                      /\ pc' = "select_topics"
                      /\ UNCHANGED outcome
    /\ UNCHANGED <<paper_pattern, question_distribution, remaining_marks>>
    /\ UNCHANGED caller

\* Mutant of select_topics_iter: the dict is appended to selected_units, the list
\* the loop runs over, so the loop never comes to its end.
select_topics_iter_AppendsToSelected ==
    /\ pc = "select_topics"
    /\ idx <= Len(selected_units)
    /\ selected_units' = Append(selected_units, selected_units[idx])
    /\ idx' = idx + 1
    /\ UNCHANGED <<syllabus_data, pc, call, total_weightage, topic_distribution,
                   paper_pattern, question_distribution, remaining_marks, outcome,
                   caller>>

\* lines 378-386: one iteration of the loop over selected_units
select_topics_iter ==
    /\ pc = "select_topics"
    /\ idx <= Len(selected_units)
    /\ LET unit == selected_units[idx]
       IN  IF total_weightage = 0
           THEN /\ outcome' = Raise("ZeroDivisionError")
                /\ pc' = "returned"
                /\ UNCHANGED <<topic_distribution, idx>>
           ELSE /\ topic_distribution' =
                      Append(topic_distribution,
                             TopicAllocation(unit,
                                 MarksAllocation(unit.weightage, total_weightage,
                                                 call.total_marks)))
                /\ idx' = idx + 1
                /\ UNCHANGED <<outcome, pc>>
    /\ UNCHANGED <<syllabus_data, call, selected_units, total_weightage,
                   paper_pattern, question_distribution, remaining_marks>>
    /\ UNCHANGED caller

\* line 388: return topic_distribution
select_topics_return ==
    /\ pc = "select_topics"
    /\ idx > Len(selected_units)
    /\ outcome' = Return(topic_distribution)
    /\ pc' = "returned"
    /\ UNCHANGED <<syllabus_data, call, selected_units, total_weightage,
                   topic_distribution, paper_pattern, question_distribution,
                   remaining_marks, idx>>
    /\ UNCHANGED caller

\* ----------------------------------------------- get_question_distribution

\* Mutant of SectionMarks: the number of questions taken for the marks.
SectionMarks_QuestionsOnly(config) == config.questions

\* line 400: config["questions"] * config["marks_per_question"]
SectionMarks(config) == config.questions * config.marks_per_question

\* Mutant of SectionFits: the test is left out, every section is included.
SectionFits_Always(section_marks, remaining) == TRUE

\* Mutant of SectionFits: the comparison turned around.
SectionFits_Flipped(section_marks, remaining) == section_marks >= remaining

\* Mutant of SectionFits: a section that takes exactly the remaining marks is dropped.
SectionFits_Strict(section_marks, remaining) == section_marks < remaining

\* line 401: the test that admits a section
SectionFits(section_marks, remaining) == section_marks <= remaining

\* Mutant of RemainingAfter: the subtraction forgotten.
RemainingAfter_NoDecrement(remaining, section_marks) == remaining

\* line 409: remaining_marks -= section_marks
RemainingAfter(remaining, section_marks) == remaining - section_marks

\* lines 402-408: the dict stored for an included section
SectionAllocation(config, section_marks, difficulty_distribution) ==
    [type                    |-> config.type,
     questions               |-> config.questions,
     marks_per_question      |-> config.marks_per_question,
     total_marks             |-> section_marks,
     difficulty_distribution |-> difficulty_distribution]

\* Mutant of PaperPatternOf: the sections are paired with the units of the entry
\* (zip), so that an entry of fewer units than sections loses its last sections.
PaperPatternOf_PairedWithUnits(syllabus) ==
    LET pattern == DictGet(syllabus, "paper_pattern", EmptyDict)
        units   == DictGet(syllabus, "units", <<>>)
    IN  IF Len(units) < Len(pattern) THEN SubSeq(pattern, 1, Len(units)) ELSE pattern

\* Mutant of PaperPatternOf: an entry without a pattern falls back on the pattern of
\* CBSE class_10 Mathematics, where the code falls back on {}.
PaperPatternOf_FallsBackOnMathematics(syllabus) ==
    DictGet(syllabus, "paper_pattern",
            LoadSyllabusData["CBSE"]["class_10"]["Mathematics"].paper_pattern)

\* line 394: syllabus.get("paper_pattern", {})
PaperPatternOf(syllabus) == DictGet(syllabus, "paper_pattern", EmptyDict)

\* lines 393-397: lookup, pattern, remaining_marks = total_marks
get_question_distribution_call(inputs) ==
    /\ pc = "idle"
    /\ \E board \in inputs.boards, class_level \in inputs.class_levels,
          subject \in inputs.subjects,
          total_marks \in inputs.total_marks,
          difficulty_distribution \in inputs.difficulty_distributions :
          LET syllabus == GetSyllabus(syllabus_data, board, class_level, subject)
          IN  /\ call' = [op |-> "get_question_distribution", board |-> board,
                          class_level |-> class_level, subject |-> subject,
                          total_marks |-> total_marks,
                          difficulty_distribution |-> difficulty_distribution]
              /\ syllabus_data' =
                    CatalogAfterLookup(syllabus_data, board, class_level, subject)
              /\ IF syllabus.kind = "raise"
                 THEN /\ outcome' = syllabus
                      /\ pc' = "returned"
                      /\ UNCHANGED <<paper_pattern, question_distribution,
                                     remaining_marks, idx>>
                 ELSE /\ paper_pattern' = PaperPatternOf(syllabus.value)
                      /\ question_distribution' = <<>>
                      /\ remaining_marks' = total_marks
                      /\ idx' = 1
                      /\ pc' = "get_question_distribution"
                      /\ UNCHANGED outcome
    /\ UNCHANGED <<selected_units, total_weightage, topic_distribution>>
    /\ UNCHANGED caller

\* lines 400-409: the body of the loop, for the item (section, config) of the
\* pattern: the distribution and the remaining marks after it
LoopBody(distribution, remaining, item, difficulty_distribution) ==
    LET section_marks == SectionMarks(item.config)
    IN  IF SectionFits(section_marks, remaining)
        THEN [question_distribution |->
                  Append(distribution,
                         [section |-> item.section,
                          value   |-> SectionAllocation(item.config, section_marks,
                                                        difficulty_distribution)]),
              remaining_marks |-> RemainingAfter(remaining, section_marks)]
        ELSE [question_distribution |-> distribution, remaining_marks |-> remaining]

\* the loop of lines 399-409 leaving at the first section that does not fit, where
\* the code goes on to the next item
get_question_distribution_iter_BreaksOnDrop ==
    /\ pc = "get_question_distribution"
    /\ idx <= Len(paper_pattern)
    /\ LET after == LoopBody(question_distribution, remaining_marks,
                             paper_pattern[idx], call.difficulty_distribution)
       IN  /\ question_distribution' = after.question_distribution
           /\ remaining_marks' = after.remaining_marks
           /\ idx' = IF after.question_distribution = question_distribution
                     THEN Len(paper_pattern) + 1
                     ELSE idx + 1
    /\ UNCHANGED <<syllabus_data, pc, call, selected_units, total_weightage,
                   topic_distribution, paper_pattern, outcome>>
    /\ UNCHANGED caller

\* lines 399-409: one iteration of the loop over paper_pattern.items()
get_question_distribution_iter ==
    /\ pc = "get_question_distribution"
    /\ idx <= Len(paper_pattern)
    /\ LET after == LoopBody(question_distribution, remaining_marks,
                             paper_pattern[idx], call.difficulty_distribution)
       IN  /\ question_distribution' = after.question_distribution
           /\ remaining_marks' = after.remaining_marks
    /\ idx' = idx + 1
    /\ UNCHANGED <<syllabus_data, pc, call, selected_units, total_weightage,
                   topic_distribution, paper_pattern, outcome>>
    /\ UNCHANGED caller

\* line 411: return question_distribution
get_question_distribution_return ==
    /\ pc = "get_question_distribution"
    /\ idx > Len(paper_pattern)
    /\ outcome' = Return(question_distribution)
    /\ pc' = "returned"
    /\ UNCHANGED <<syllabus_data, call, selected_units, total_weightage,
                   topic_distribution, paper_pattern, question_distribution,
                   remaining_marks, idx>>
    /\ UNCHANGED caller

\* lines 396-411 run to the end on a pattern: the loop from item i on
RECURSIVE LoopFrom(_, _, _, _, _)
LoopFrom(pattern, i, distribution, remaining, difficulty_distribution) ==
    IF i > Len(pattern) THEN distribution
    ELSE LET after == LoopBody(distribution, remaining, pattern[i],
                               difficulty_distribution)
         IN  LoopFrom(pattern, i + 1, after.question_distribution,
                      after.remaining_marks, difficulty_distribution)

\* the value get_question_distribution returns for a paper pattern
QuestionDistributionOf(pattern, total_marks, difficulty_distribution) ==
    LoopFrom(pattern, 1, <<>>, total_marks, difficulty_distribution)

\* lines 394-411 on an entry
QuestionDistributionOn(syllabus, total_marks, difficulty_distribution) ==
    QuestionDistributionOf(PaperPatternOf(syllabus), total_marks,
                           difficulty_distribution)

\* lines 366-388 on an entry (without the ZeroDivisionError of an empty weightage
\* sum, which no selection of positive weightages gives)
SelectTopicsOn(syllabus, total_marks, topic_preferences) ==
    LET units    == DictGet(syllabus, "units", <<>>)
        selected == SelectUnits(units, topic_preferences)
        total_w  == TotalWeightage(units, selected)
    IN  [i \in 1..Len(selected) |->
            TopicAllocation(selected[i],
                MarksAllocation(selected[i].weightage, total_w, total_marks))]

\* --------------------------------------------- validate_paper_requirements

\* A warning is the tuple of the pieces of its f-string.
MarksWarning(expected_marks, board, class_level, subject) ==
    <<"Expected ", expected_marks, " marks for ", board, " ", class_level, " ", subject>>
\* Mutant of DurationWarning: the string is no f-string, the placeholder stays.
DurationWarning_NoValue(expected_duration) ==
    <<"Expected duration: ", "{expected_duration}">>

DurationWarning(expected_duration) == <<"Expected duration: ", expected_duration>>
TopicsWarning == <<"Limited topics available for paper generation">>

\* Mutant of IsValid: a warning makes the request invalid.
IsValid_NoWarnings(warnings) == warnings = <<>>

\* lines 418-422 and 439: the flag of the returned dict
IsValid(warnings) == TRUE

\* Mutant of MarksDiffer: only a request below the canonical marks is reported.
MarksDiffer_Below(total_marks, expected_marks) == total_marks < expected_marks

\* line 425: total_marks != expected_marks
MarksDiffer(total_marks, expected_marks) == total_marks # expected_marks

\* Mutant of DurationDiffers: the comparison is inverted.
DurationDiffers_Inverted(duration, expected_duration) == duration = expected_duration

\* line 430: duration != expected_duration
DurationDiffers(duration, expected_duration) == duration # expected_duration

\* Mutant of TooFewUnits: the comparison is inverted.
TooFewUnits_Inverted(units) == Len(units) > 3

\* line 435: len(units) < 3
TooFewUnits(units) == Len(units) < 3

\* Mutant of WarningsInOrder: the test of the units is made first.
WarningsInOrder_TopicsFirst(marks, duration, topics) == topics \o marks \o duration

\* lines 425-437: the three tests append to warnings in the order they are written,
\* each argument the warning of its test or nothing
WarningsInOrder(marks, duration, topics) == marks \o duration \o topics

\* lines 418-439
ValidatePaperRequirements(syllabus, board, class_level, subject, total_marks, duration) ==
    LET expected_marks    == DictGet(syllabus, "total_marks", 80)
        expected_duration == DictGet(syllabus, "duration", "3 hours")
        units             == DictGet(syllabus, "units", <<>>)
        w1 == IF MarksDiffer(total_marks, expected_marks)
              THEN <<MarksWarning(expected_marks, board, class_level, subject)>>
              ELSE <<>>
        w2 == IF DurationDiffers(duration, expected_duration)
              THEN <<DurationWarning(expected_duration)>>
              ELSE <<>>
        w3 == IF TooFewUnits(units) THEN <<TopicsWarning>> ELSE <<>>
        warnings == WarningsInOrder(w1, w2, w3)
    IN  [is_valid    |-> IsValid(warnings),
         warnings    |-> warnings,
         suggestions |-> <<>>]

validate_paper_requirements(inputs) ==
    /\ pc = "idle"
    /\ \E board \in inputs.boards, class_level \in inputs.class_levels,
          subject \in inputs.subjects,
          total_marks \in inputs.total_marks, duration \in inputs.durations :
          LET syllabus == GetSyllabus(syllabus_data, board, class_level, subject)
          IN  /\ call' = [op |-> "validate_paper_requirements", board |-> board,
                          class_level |-> class_level, subject |-> subject,
                          total_marks |-> total_marks, duration |-> duration]
              /\ syllabus_data' =
                    CatalogAfterLookup(syllabus_data, board, class_level, subject)
              /\ outcome' =
                    IF syllabus.kind = "raise" THEN syllabus
                    ELSE Return(ValidatePaperRequirements(syllabus.value, board,
                                    class_level, subject, total_marks, duration))
    /\ pc' = "returned"
    /\ UNCHANGED <<selected_units, total_weightage, topic_distribution,
                   paper_pattern, question_distribution, remaining_marks, idx>>
    /\ UNCHANGED caller

\* ------------------------------------------------- get_learning_objectives

\* line 451: one objective per topic of the unit
ObjectivesOf(unit_topics) ==
    [i \in 1..Len(unit_topics) |->
        <<"Understand and apply concepts of ", unit_topics[i]>>]

\* lines 447-453: the objectives of the units named in topics, in catalog order
RECURSIVE LearningObjectives(_, _)
LearningObjectives(units, topics) ==
    IF units = <<>> THEN <<>>
    ELSE (IF InList(Head(units).name, topics)
          THEN ObjectivesOf(Head(units).topics)
          ELSE <<>>) \o LearningObjectives(Tail(units), topics)

\* lines 444-453
get_learning_objectives(inputs) ==
    /\ pc = "idle"
    /\ \E board \in inputs.boards, class_level \in inputs.class_levels,
          subject \in inputs.subjects, topics \in inputs.topics :
          LET syllabus == GetSyllabus(syllabus_data, board, class_level, subject)
              units    == DictGet(syllabus.value, "units", <<>>)
          IN  /\ call' = [op |-> "get_learning_objectives", board |-> board,
                          class_level |-> class_level, subject |-> subject,
                          topics |-> topics]
              /\ syllabus_data' =
                    CatalogAfterLookup(syllabus_data, board, class_level, subject)
              /\ outcome' =
                    IF syllabus.kind = "raise" THEN syllabus
                    ELSE Return(LearningObjectives(units, topics))
    /\ pc' = "returned"
    /\ UNCHANGED <<selected_units, total_weightage, topic_distribution,
                   paper_pattern, question_distribution, remaining_marks, idx>>
    /\ UNCHANGED caller

\* --------------------------------------------- generate_paper_instructions

\* lines 458-469 and the strip() of line 471: the pieces of the f-string
PaperInstructions(board, class_level, subject, total_marks, duration) ==
    <<board, " ", class_level, " ", subject, " Examination\n        Total Marks: ",
      total_marks, "\n        Duration: ", duration,
      "\n        \n        General Instructions:\n        1. All questions are compulsory.\n        2. Marks are indicated against each question.\n        3. Use of calculator is not allowed.\n        4. Draw neat diagrams wherever required.\n        5. Write your answers clearly and legibly.">>

\* lines 455-471: no lookup, so no key is ever missing
generate_paper_instructions(inputs) ==
    /\ pc = "idle"
    /\ \E board \in inputs.boards, class_level \in inputs.class_levels,
          subject \in inputs.subjects,
          total_marks \in inputs.total_marks, duration \in inputs.durations :
          /\ call' = [op |-> "generate_paper_instructions", board |-> board,
                      class_level |-> class_level, subject |-> subject,
                      total_marks |-> total_marks, duration |-> duration]
          /\ outcome' = Return(PaperInstructions(board, class_level, subject,
                                                 total_marks, duration))
    /\ pc' = "returned"
    /\ UNCHANGED <<syllabus_data, selected_units, total_weightage, topic_distribution,
                   paper_pattern, question_distribution, remaining_marks, idx>>
    /\ UNCHANGED caller

\* ------------------------------------------------------------------ caller

\* The caller takes the result or the exception (lines 478-490 call one operation
\* after the other); the finished call's locals are gone.
CallerContinues ==
    /\ pc = "returned"
    /\ pc' = "idle"
    /\ call' = NoCall
    /\ outcome' = NoOutcome
    /\ ClearSelectTopics
    /\ ClearQuestionDistribution
    /\ idx' = 0
    /\ UNCHANGED syllabus_data
    /\ UNCHANGED caller

Next ==
    \/ get_syllabus(AllInputs)
    \/ select_topics_call(AllInputs)
    \/ select_topics_iter
    \/ select_topics_return
    \/ get_question_distribution_call(AllInputs)
    \/ get_question_distribution_iter
    \/ get_question_distribution_return
    \/ validate_paper_requirements(AllInputs)
    \/ get_learning_objectives(AllInputs)
    \/ generate_paper_instructions(AllInputs)
    \/ CallerContinues

Spec == Init /\ [][Next]_vars

\* ------------------------------------------- catalogs with shorter entries

\* validate_paper_requirements reads the entry it is given (lines 416, 424, 429, 434);
\* every bundled entry has at least 6 units, so the branch of line 435 is exercised
\* with the Mathematics entry cut to its first n units, and without its "units" key.
MathematicsEntry == LoadSyllabusData["CBSE"]["class_10"]["Mathematics"]
WithoutUnits(entry) == [f \in DOMAIN entry \ {"units"} |-> entry[f]]
ShortEntries ==
    {[MathematicsEntry EXCEPT !.units = SubSeq(@, 1, n)] : n \in 0..MaxUnits}
        \cup {WithoutUnits(MathematicsEntry)}
ShortCatalogs ==
    {[LoadSyllabusData EXCEPT !["CBSE"]["class_10"]["Mathematics"] = entry] :
        entry \in ShortEntries}

InitEntries ==
    /\ syllabus_data \in ShortCatalogs
    /\ InitRest

NextEntries ==
    \/ validate_paper_requirements(AllInputs)
    \/ CallerContinues

SpecEntries == InitEntries /\ [][NextEntries]_vars

\* ------------------------------------- callers that keep and write results

\* Line 382 stores unit["topics"] itself in the returned dict, and line 360 returns
\* the entry itself: the topics list of a unit is one object, reachable from the
\* catalog, from every allocation returned for that unit and from every entry
\* returned by get_syllabus. A write through one of them is seen through all.

\* units, after `item` was appended to the topics list of the unit of that name
TopicsAppended(units, name, item) ==
    [i \in 1..Len(units) |->
        IF units[i].name = name
        THEN [units[i] EXCEPT !.topics = Append(@, item)]
        ELSE units[i]]

\* allocations, after `item` was appended to the topics list of the unit of that name
AllocationsAppended(allocations, name, item) ==
    [i \in 1..Len(allocations) |->
        IF allocations[i].unit_name = name
        THEN [allocations[i] EXCEPT !.topics = Append(@, item)]
        ELSE allocations[i]]

\* what the outcome o of call c holds after that append to a unit of the entry
\* (board, class_level, subject)
OutcomeAfterAppend(c, o, board, class_level, subject, name, item) ==
    IF /\ o.kind = "return"
       /\ c.op \in {"select_topics", "get_syllabus"}
       /\ c.board = board /\ c.class_level = class_level /\ c.subject = subject
    THEN IF c.op = "select_topics"
         THEN Return(AllocationsAppended(o.value, name, item))
         ELSE Return([o.value EXCEPT !.units = TopicsAppended(@, name, item)])
    ELSE o

WrittenTopics == {"Extra Topic"}

\* The caller appends to the topics list of an allocation it was returned:
\* result[i]["topics"].append(item).
CallerWritesTopics ==
    /\ pc = "returned"
    /\ call.op = "select_topics"
    /\ outcome.kind = "return"
    /\ caller.mutations < MaxMutations
    /\ \E i \in 1..Len(outcome.value), item \in WrittenTopics :
          LET name == outcome.value[i].unit_name
              After(c, o) == OutcomeAfterAppend(c, o, call.board, call.class_level,
                                                call.subject, name, item)
          IN  /\ syllabus_data' =
                    [syllabus_data EXCEPT
                        ![call.board][call.class_level][call.subject].units =
                            TopicsAppended(@, name, item)]
              /\ outcome' = After(call, outcome)
              /\ topic_distribution' = AllocationsAppended(topic_distribution, name, item)
              /\ selected_units' = TopicsAppended(selected_units, name, item)
              /\ caller' = [kept |-> [caller.kept EXCEPT
                                         !.outcome = After(caller.kept.call, @)],
                            mutations |-> caller.mutations + 1]
    /\ UNCHANGED <<pc, call, total_weightage, paper_pattern, question_distribution,
                   remaining_marks, idx>>

\* The caller keeps the outcome of the call (result = analyzer.op(...), lines 478-486)
\* in place of the one it kept before, and goes on.
CallerKeeps ==
    /\ pc = "returned"
    /\ pc' = "idle"
    /\ caller' = [caller EXCEPT !.kept = [call |-> call, outcome |-> outcome,
                                          mutations |-> caller.mutations]]
    /\ call' = NoCall
    /\ outcome' = NoOutcome
    /\ ClearSelectTopics
    /\ ClearQuestionDistribution
    /\ idx' = 0
    /\ UNCHANGED syllabus_data

\* The arguments of these callers.
FewInputs ==
    [boards |-> {"CBSE", "IB"}, class_levels |-> {"class_10"},
     subjects |-> {"Mathematics", "Science"},
     total_marks |-> {55, 80},
     topic_preferences |-> {Some(<<"Real Numbers">>),
                            Some(<<"Trigonometry", "Real Numbers">>)},
     durations |-> {"3 hours", "2 hours"},
     difficulty_distributions |-> {[easy |-> 30, medium |-> 50, hard |-> 20]},
     topics |-> {<<"Real Numbers">>}]

NextCallers ==
    \/ get_syllabus(FewInputs)
    \/ select_topics_call(FewInputs)
    \/ select_topics_iter
    \/ select_topics_return
    \/ get_question_distribution_call(FewInputs)
    \/ get_question_distribution_iter
    \/ get_question_distribution_return
    \/ validate_paper_requirements(FewInputs)
    \/ get_learning_objectives(FewInputs)
    \/ generate_paper_instructions(FewInputs)
    \/ CallerContinues
    \/ CallerKeeps
    \/ CallerWritesTopics

SpecCallers == Init /\ [][NextCallers]_vars

\* ------------------------------------------ catalogs with other patterns

\* get_question_distribution fills whatever pattern the entry declares (lines
\* 394-411); the bundled catalog declares one. Here the Mathematics entry declares
\* any pattern of up to MaxSections sections of 0, 2 or 3 questions of 1 or 4 marks.
SectionKeys == <<"section_a", "section_b", "section_c", "section_d", "section_e">>
Configs ==
    {[type |-> "short_answer", questions |-> q, marks_per_question |-> m] :
        q \in {0, 2, 3}, m \in {1, 4}}
Patterns ==
    UNION {{[i \in 1..k |-> [section |-> SectionKeys[i], config |-> f[i]]] :
               f \in [1..k -> Configs]} : k \in 0..MaxSections}
PatternCatalogs ==
    {[LoadSyllabusData EXCEPT !["CBSE"]["class_10"]["Mathematics"].paper_pattern = p] :
        p \in Patterns} \cup {LoadSyllabusData}

PatternInputs ==
    [AllInputs EXCEPT !.boards = {"CBSE"}, !.class_levels = {"class_10"},
                      !.subjects = {"Mathematics"}, !.total_marks = 0..MaxBudget,
                      !.difficulty_distributions = {[easy |-> 30, medium |-> 50,
                                                     hard |-> 20]}]

InitPatterns ==
    /\ syllabus_data \in PatternCatalogs
    /\ InitRest

NextPatterns ==
    \/ get_question_distribution_call(PatternInputs)
    \/ get_question_distribution_iter
    \/ get_question_distribution_return
    \/ CallerContinues

SpecPatterns == InitPatterns /\ [][NextPatterns]_vars

\* ============================================================== properties

\* The catalog as the properties read it (not through get_syllabus).
KeyPresent(board, class_level, subject) ==
    /\ board \in DOMAIN syllabus_data
    /\ class_level \in DOMAIN syllabus_data[board]
    /\ subject \in DOMAIN syllabus_data[board][class_level]

CallKeyPresent == KeyPresent(call.board, call.class_level, call.subject)
CallEntry == syllabus_data[call.board][call.class_level][call.subject]

UnitNames(units) == [i \in 1..Len(units) |-> units[i].name]
AllocationNames(allocations) == [i \in 1..Len(allocations) |-> allocations[i].unit_name]
Range(s) == {s[i] : i \in 1..Len(s)}

RECURSIVE SumAllocated(_)
SumAllocated(allocations) ==
    IF allocations = <<>> THEN 0
    ELSE Head(allocations).allocated_marks + SumAllocated(Tail(allocations))

\* a select_topics call that returned a result
SelectTopicsReturned ==
    /\ pc = "returned"
    /\ call.op = "select_topics"
    /\ outcome.kind = "return"

\* a select_topics call on an existing key that has ended
SelectTopicsEnded ==
    /\ pc = "returned"
    /\ call.op = "select_topics"
    /\ CallKeyPresent

\* the weightage the catalog gives the unit of that name in the call's entry
WeightageOf(name) ==
    LET units == CallEntry.units
    IN  units[CHOOSE i \in 1..Len(units) : units[i].name = name].weightage

\* the position of the unit of that name in the call's entry
PositionOf(name) ==
    LET units == CallEntry.units
    IN  CHOOSE i \in 1..Len(units) : units[i].name = name

\* C1: whenever select_topics returns a result, the sum of allocated_marks over the
\* returned allocations is at most total_marks, for every entry, every budget and
\* every preference list. Stated for the results that are not empty (a case of the
\* claim), so that a violation does not rest on the empty result of C2.
C1_SumWithinBudget ==
    (SelectTopicsReturned /\ outcome.value # <<>>) =>
        SumAllocated(outcome.value) <= call.total_marks

\* C2: a non-empty topic_preferences list that matches no unit name of the entry
\* makes select_topics fail with InvalidConfigurationError (no empty list, no
\* division by zero).
C2_NoMatchIsInvalidConfiguration ==
    ( /\ SelectTopicsEnded
      /\ PrefsTruthy(call.topic_preferences)
      /\ \A i \in 1..Len(CallEntry.units) :
            ~InList(CallEntry.units[i].name, call.topic_preferences.items) )
    => outcome = Raise("InvalidConfigurationError")

\* C3: every returned allocation is floor(weightage / W * total_marks), W the sum of
\* the weightages of the selected units only; nothing is added to it afterwards.
\* Stated for the budgets >= 0 (a case of the claim), where floor and truncation
\* toward zero agree.
C3_AllocationIsFloorOfShare ==
    (SelectTopicsReturned /\ call.total_marks >= 0) =>
        LET res == outcome.value
            W   == SumWeightage([i \in 1..Len(res) |->
                                     [weightage |-> WeightageOf(res[i].unit_name)]])
        IN  \A i \in 1..Len(res) :
               res[i].allocated_marks =
                   (WeightageOf(res[i].unit_name) * call.total_marks) \div W

\* C4: with topic_preferences None or [], select_topics returns exactly one
\* allocation per unit of the entry, the unit names in the catalog's order.
C4_NoPreferencesSelectsAllUnits ==
    (SelectTopicsEnded /\ ~PrefsTruthy(call.topic_preferences)) =>
        /\ outcome.kind = "return"
        /\ AllocationNames(outcome.value) = UnitNames(CallEntry.units)

C4_Witness ==
    /\ SelectTopicsReturned
    /\ call.topic_preferences = Some(<<>>)
    /\ call.board = "CBSE" /\ call.subject = "Mathematics"
    /\ Len(outcome.value) = 15
    /\ outcome.value[1].unit_name = "Real Numbers"
    /\ outcome.value[15].unit_name = "Probability"

\* C5: with a non-empty topic_preferences list, the returned units are exactly the
\* entry's units whose name is an element of the list (each once, whatever the list
\* repeats or names in vain), in the catalog's order.
C5_PreferencesFilterInCatalogOrder ==
    (SelectTopicsEnded /\ PrefsTruthy(call.topic_preferences)) =>
        /\ outcome.kind = "return"
        /\ LET names  == AllocationNames(outcome.value)
               wanted == Range(UnitNames(CallEntry.units))
                             \cap Range(call.topic_preferences.items)
           IN  /\ Range(names) = wanted
               /\ Len(names) = Cardinality(wanted)
               /\ \A i, j \in 1..Len(names) :
                     i < j => PositionOf(names[i]) < PositionOf(names[j])

C5_Witness ==
    /\ SelectTopicsReturned
    /\ call.board = "CBSE" /\ call.subject = "Mathematics"
    /\ call.topic_preferences = Some(<<"Trigonometry", "Real Numbers">>)
    /\ AllocationNames(outcome.value) = <<"Real Numbers", "Trigonometry">>
    /\ outcome.value[1].allocated_marks > outcome.value[2].allocated_marks

\* ------------------------------------------------- get_question_distribution

SectionNames(distribution) == [i \in 1..Len(distribution) |-> distribution[i].section]

RECURSIVE SumSectionMarks(_)
SumSectionMarks(distribution) ==
    IF distribution = <<>> THEN 0
    ELSE Head(distribution).value.total_marks + SumSectionMarks(Tail(distribution))

\* the paper pattern the catalog declares for the call's entry
DeclaredPattern ==
    IF CallKeyPresent /\ "paper_pattern" \in DOMAIN CallEntry
    THEN CallEntry.paper_pattern
    ELSE <<>>

\* questions * marks_per_question of the declared section of that name
DeclaredMarks(section) ==
    LET i == CHOOSE k \in 1..Len(DeclaredPattern) : DeclaredPattern[k].section = section
    IN  DeclaredPattern[i].config.questions * DeclaredPattern[i].config.marks_per_question

\* each section of the distribution has its declared marks, and they are at most
\* total_marks less the marks of the sections included before it
EachWithinRemaining(distribution, total_marks) ==
    \A j \in 1..Len(distribution) :
        /\ distribution[j].value.total_marks = DeclaredMarks(distribution[j].section)
        /\ distribution[j].value.total_marks
               <= total_marks - SumSectionMarks(SubSeq(distribution, 1, j - 1))

\* C6: get_question_distribution never includes a section whose marks exceed the
\* budget remaining when it is considered: total_marks less the marks of every
\* section included earlier. It holds during the fill and of the returned mapping.
C6_NeverExceedsRemaining ==
    call.op = "get_question_distribution" =>
        /\ EachWithinRemaining(question_distribution, call.total_marks)
        /\ outcome.kind = "return" => EachWithinRemaining(outcome.value, call.total_marks)

C6_Witness ==
    /\ pc = "returned"
    /\ call.op = "get_question_distribution"
    /\ call.total_marks = 30
    /\ outcome.kind = "return"
    /\ SectionNames(outcome.value) = <<"section_a">>
    /\ DeclaredMarks("section_b") > 30 - DeclaredMarks("section_a")
    /\ DeclaredMarks("section_b") <= 30

\* one step of the module, as C7 has the fill go
C7_FillStep ==
    /\ (pc = "idle" /\ pc' = "get_question_distribution") =>
          /\ idx' = 1
          /\ remaining_marks' = call'.total_marks
          /\ question_distribution' = <<>>
    /\ pc = "get_question_distribution" =>
          /\ paper_pattern = DeclaredPattern
          /\ IF idx <= Len(DeclaredPattern)
             THEN LET config == DeclaredPattern[idx].config
                      marks  == config.questions * config.marks_per_question
                  IN  /\ idx' = idx + 1
                      /\ pc' = pc
                      /\ outcome' = NoOutcome
                      /\ IF marks <= remaining_marks
                         THEN /\ question_distribution' =
                                    Append(question_distribution,
                                       [section |-> DeclaredPattern[idx].section,
                                        value |->
                                          [type |-> config.type,
                                           questions |-> config.questions,
                                           marks_per_question |-> config.marks_per_question,
                                           total_marks |-> marks,
                                           difficulty_distribution |->
                                               call.difficulty_distribution]])
                              /\ remaining_marks' = remaining_marks - marks
                         ELSE /\ question_distribution' = question_distribution
                              /\ remaining_marks' = remaining_marks
             ELSE /\ pc' = "returned"
                  /\ outcome' = Return(question_distribution)

\* C7: the fill starts with remaining = total_marks and an empty result, visits the
\* declared sections in order, one per iteration, and includes a section (with
\* total_marks = questions * marks_per_question and the caller's difficulty mix,
\* subtracting its marks from remaining) if and only if its marks are <= remaining;
\* otherwise result and remaining stay as they are and no error is raised. After the
\* last section the result is returned.
C7_SectionFill == [][C7_FillStep]_vars

C7_Witness ==
    /\ pc = "returned"
    /\ call.op = "get_question_distribution"
    /\ call.total_marks = 32
    /\ outcome.kind = "return"
    /\ SectionNames(outcome.value) = <<"section_a", "section_b">>
    /\ remaining_marks = 0
    /\ idx = 5

\* the sequences with the elements of s in every order
Reorderings(s) ==
    {[i \in 1..Len(s) |-> s[f[i]]] :
        f \in {g \in [1..Len(s) -> 1..Len(s)] :
                  \A i, j \in 1..Len(s) : g[i] = g[j] => i = j}}

DefaultMix == [easy |-> 30, medium |-> 50, hard |-> 20]

\* the sections get_question_distribution includes for a pattern and a budget
IncludedSections(pattern, total_marks) ==
    Range(SectionNames(QuestionDistributionOf(pattern, total_marks, DefaultMix)))

\* the paper pattern of the bundled CBSE class_10 Mathematics entry, as the catalog
\* holds it
MathematicsPattern == syllabus_data["CBSE"]["class_10"]["Mathematics"].paper_pattern

\* C8: the fill depends on the order of the pattern: for some budget, some
\* reordering of the catalog's CBSE class_10 Mathematics pattern has another set of
\* sections included than the pattern as declared. The catalog is read in the
\* states between two calls.
C8_FillDependsOnOrder ==
    pc = "idle" =>
        \E total_marks \in TotalMarks :
            \E p \in Reorderings(MathematicsPattern) :
                IncludedSections(p, total_marks)
                    # IncludedSections(MathematicsPattern, total_marks)

C8_Witness ==
    /\ pc = "returned"
    /\ call.op = "get_question_distribution"
    /\ call.total_marks = 20
    /\ outcome.kind = "return"
    /\ SectionNames(outcome.value) = <<"section_a">>
    /\ LET p == DeclaredPattern
       IN  IncludedSections(<<p[2], p[1], p[3], p[4]>>, 20) = {"section_b"}

\* --------------------------------------------- validate_paper_requirements

\* C9: for every existing entry and every total marks and duration,
\* validate_paper_requirements returns is_valid = true, whatever the warnings.
C9_AlwaysValid ==
    (pc = "returned" /\ call.op = "validate_paper_requirements" /\ CallKeyPresent) =>
        /\ outcome.kind = "return"
        /\ outcome.value.is_valid = TRUE

C9_Witness ==
    /\ pc = "returned"
    /\ call.op = "validate_paper_requirements"
    /\ outcome.kind = "return"
    /\ Len(outcome.value.warnings) = 2
    /\ outcome.value.is_valid

\* ------------------------------------------------------------ get_syllabus

\* C10: get_syllabus returns the catalog entry when the key is present and raises
\* the not-found error (ValueError) when the board, the class level under it or the
\* subject under that is absent; it never returns an empty structure.
C10_LookupOrNotFound ==
    (pc = "returned" /\ call.op = "get_syllabus") =>
        /\ CallKeyPresent => outcome = Return(CallEntry)
        /\ ~CallKeyPresent => outcome = Raise("ValueError")
        /\ outcome.kind = "return" => DOMAIN outcome.value # {}

C10_Witness ==
    /\ pc = "returned"
    /\ call.op = "get_syllabus"
    /\ call.board = "ICSE" /\ call.class_level = "class_10" /\ call.subject = "Science"
    /\ outcome = Raise("ValueError")

\* ------------------------------------------------ validation warnings

ValidateReturned ==
    /\ pc = "returned"
    /\ call.op = "validate_paper_requirements"
    /\ outcome.kind = "return"

\* A warning is recognised by the fixed text its f-string starts with.
IsMarksWarning(w) == w[1] = "Expected "
IsDurationWarning(w) == w[1] = "Expected duration: "
IsTopicsWarning(w) == w[1] = "Limited topics available for paper generation"

HasMarksWarning(warnings) == \E i \in 1..Len(warnings) : IsMarksWarning(warnings[i])
HasDurationWarning(warnings) == \E i \in 1..Len(warnings) : IsDurationWarning(warnings[i])
HasTopicsWarning(warnings) == \E i \in 1..Len(warnings) : IsTopicsWarning(warnings[i])

\* C11: validate_paper_requirements reports a total-marks warning exactly when the
\* requested total marks differ from the canonical total marks of the entry, and the
\* warning names the canonical marks and the key of the entry.
C11_MarksWarningIffDifferent ==
    ValidateReturned =>
        LET warnings == outcome.value.warnings
        IN  /\ HasMarksWarning(warnings) <=> call.total_marks # CallEntry.total_marks
            /\ \A i \in 1..Len(warnings) :
                  IsMarksWarning(warnings[i]) =>
                      warnings[i] = MarksWarning(CallEntry.total_marks, call.board,
                                                 call.class_level, call.subject)

\* A request above the canonical marks, with the canonical duration, is reported.
C11_Witness ==
    /\ ValidateReturned
    /\ call.total_marks > CallEntry.total_marks
    /\ call.duration = CallEntry.duration
    /\ HasMarksWarning(outcome.value.warnings)

\* C12: validate_paper_requirements reports a duration warning exactly when the
\* requested duration string differs from the canonical duration of the entry, and the
\* warning names the canonical duration.
C12_DurationWarningIffDifferent ==
    ValidateReturned =>
        LET warnings == outcome.value.warnings
        IN  /\ HasDurationWarning(warnings) <=> call.duration # CallEntry.duration
            /\ \A i \in 1..Len(warnings) :
                  IsDurationWarning(warnings[i]) =>
                      warnings[i] = DurationWarning(CallEntry.duration)

\* The canonical marks with another duration: only the duration is reported.
C12_Witness ==
    /\ ValidateReturned
    /\ call.total_marks = CallEntry.total_marks
    /\ call.duration # CallEntry.duration
    /\ HasDurationWarning(outcome.value.warnings)
    /\ Len(outcome.value.warnings) = 1

\* C13: validate_paper_requirements reports the limited-topics warning exactly when
\* the entry has fewer than 3 units, whatever the requested total marks and duration.
C13_TopicsWarningIffFewUnits ==
    ValidateReturned =>
        LET warnings == outcome.value.warnings
        IN  /\ HasTopicsWarning(warnings) <=> Len(DictGet(CallEntry, "units", <<>>)) < 3
            /\ \A i \in 1..Len(warnings) :
                  IsTopicsWarning(warnings[i]) => warnings[i] = TopicsWarning

\* An entry of two units, asked with its canonical marks and duration: the
\* limited-topics warning is the only one.
C13_Witness ==
    /\ ValidateReturned
    /\ Len(DictGet(CallEntry, "units", <<>>)) = 2
    /\ call.total_marks = CallEntry.total_marks
    /\ call.duration = CallEntry.duration
    /\ outcome.value.warnings = <<TopicsWarning>>

\* ------------------------------------- the bundled Mathematics syllabus

CallOnMathematics ==
    /\ call.board = "CBSE"
    /\ call.class_level = "class_10"
    /\ call.subject = "Mathematics"

\* C14: for the bundled CBSE class_10 Mathematics entry, total_marks 80 and no
\* preferences, select_topics returns all 15 units in declaration order, and the
\* first, Real Numbers (weightage 6 of 66), is allocated 7 marks.
C14_MathematicsAllocation ==
    (/\ SelectTopicsEnded
     /\ CallOnMathematics
     /\ call.total_marks = 80
     /\ ~PrefsTruthy(call.topic_preferences)) =>
        /\ outcome.kind = "return"
        /\ Len(outcome.value) = 15
        /\ AllocationNames(outcome.value) = UnitNames(MathematicsEntry.units)
        /\ outcome.value[1].unit_name = "Real Numbers"
        /\ WeightageOf("Real Numbers") = 6
        /\ SumWeightage(MathematicsEntry.units) = 66
        /\ outcome.value[1].allocated_marks = 7

C14_Witness ==
    /\ SelectTopicsReturned
    /\ CallOnMathematics
    /\ call.total_marks = 80
    /\ call.topic_preferences = None
    /\ outcome.value[1].allocated_marks = 7
    /\ outcome.value[15].unit_name = "Probability"

QuestionDistributionCall ==
    /\ call.op = "get_question_distribution"
    /\ CallOnMathematics
    /\ call.total_marks = 80

\* C15: for the bundled Mathematics paper pattern and total_marks 80, the fill
\* includes section_a, section_b, section_c, section_d in that order, the remaining
\* budget going 80, 60, 48, 24, 0, and the section marks add up to 80.
C15_MathematicsFill ==
    QuestionDistributionCall =>
        /\ pc = "get_question_distribution" =>
              /\ idx \in 1..5
              /\ remaining_marks = <<80, 60, 48, 24, 0>>[idx]
              /\ SectionNames(question_distribution)
                    = SubSeq(<<"section_a", "section_b", "section_c", "section_d">>,
                             1, idx - 1)
        /\ pc = "returned" =>
              /\ outcome.kind = "return"
              /\ SectionNames(outcome.value)
                    = <<"section_a", "section_b", "section_c", "section_d">>
              /\ remaining_marks = 0
              /\ SumSectionMarks(outcome.value) = 80

C15_Witness ==
    /\ QuestionDistributionCall
    /\ pc = "returned"
    /\ Len(outcome.value) = 4
    /\ outcome.value[4].section = "section_d"
    /\ outcome.value[4].value.total_marks = 24
    /\ remaining_marks = 0

\* C16: validate_paper_requirements for the bundled Mathematics entry with
\* total_marks 80 and duration "2 hours" returns is_valid true, a warning naming the
\* expected duration "3 hours", and no total-marks warning.
C16_MathematicsTwoHours ==
    (/\ pc = "returned"
     /\ call.op = "validate_paper_requirements"
     /\ CallOnMathematics
     /\ call.total_marks = 80
     /\ call.duration = "2 hours") =>
        /\ outcome.kind = "return"
        /\ outcome.value.is_valid = TRUE
        /\ <<"Expected duration: ", "3 hours">> \in Range(outcome.value.warnings)
        /\ ~HasMarksWarning(outcome.value.warnings)

C16_Witness ==
    /\ ValidateReturned
    /\ CallOnMathematics
    /\ call.total_marks = 80
    /\ call.duration = "2 hours"
    /\ outcome.value = [is_valid |-> TRUE,
                        warnings |-> << <<"Expected duration: ", "3 hours">> >>,
                        suggestions |-> <<>>]

\* ------------------------------------------------------------- the catalog

\* C17: whatever calls of get_syllabus, select_topics, get_question_distribution,
\* validate_paper_requirements, get_learning_objectives and
\* generate_paper_instructions are made, succeeding or failing, the catalog keeps
\* the value it was constructed with.
C17_CatalogNeverChanges == syllabus_data = LoadSyllabusData

\* A lookup that failed on an absent board has left the catalog as it was.
C17_Witness ==
    /\ pc = "returned"
    /\ call.op = "get_learning_objectives"
    /\ call.board = "IB"
    /\ outcome = Raise("ValueError")
    /\ DOMAIN syllabus_data = {"CBSE", "ICSE"}
    /\ syllabus_data = LoadSyllabusData

\* ------------------------------------------------------ results and callers

CallerWrote == caller'.mutations # caller.mutations

\* C18: a returned value shares no mutable structure with the catalog or with the
\* value returned for another request: when the caller writes into a returned
\* value, the catalog and the result kept from an earlier request stay as they were.
C18_ResultsShareNothing ==
    [][CallerWrote => (syllabus_data' = syllabus_data /\ caller'.kept = caller.kept)]_vars

\* the call that has returned was made before with the same arguments, its outcome
\* was kept, and the caller has written into no returned value since
SameCallAgain ==
    /\ pc = "returned"
    /\ caller.kept.call = call
    /\ caller.kept.mutations = caller.mutations

\* C20: two calls of an operation with equal arguments give equal outcomes, the same
\* result or the same failure, whatever calls were made before or between them.
C20_EqualCallsEqualOutcomes == SameCallAgain => outcome = caller.kept.outcome

\* select_topics returned, for the second time, two allocations.
C20_Witness ==
    /\ SameCallAgain
    /\ call.op = "select_topics"
    /\ outcome.kind = "return"
    /\ Len(outcome.value) = 2
    /\ outcome = caller.kept.outcome

\* ------------------------------------------------------------- termination

InLoop == pc \in {"select_topics", "get_question_distribution"}

\* the iterations the call's loop has made: idx is 0 when no loop was begun,
\* starts at 1 and advances by one
LoopIterations == IF idx = 0 THEN 0 ELSE idx - 1

\* the iterations the running loop has still to make
LoopLeft ==
    IF pc = "select_topics" THEN Len(selected_units) + 1 - idx
    ELSE IF pc = "get_question_distribution" THEN Len(paper_pattern) + 1 - idx
    ELSE 0

\* the iterations stay within the units, respectively the sections, of the entry,
\* and validate_paper_requirements has no loop
IterationsBounded ==
    /\ InLoop => LoopLeft >= 0
    /\ call.op = "select_topics" /\ CallKeyPresent =>
          LoopIterations <= Len(CallEntry.units)
    /\ call.op = "get_question_distribution" /\ CallKeyPresent =>
          LoopIterations <= Len(DeclaredPattern)
    /\ call.op = "validate_paper_requirements" => LoopIterations = 0 /\ ~InLoop

\* a step of a running loop ends the call or leaves fewer iterations to make
LoopStep ==
    InLoop =>
        \/ pc' = "returned"
        \/ pc' = pc /\ LoopLeft' < LoopLeft

\* C19: every call of select_topics, get_question_distribution and
\* validate_paper_requirements ends, with a result or an error, after at most as
\* many loop iterations as the looked-up entry has units, respectively sections:
\* the iterations made stay within that number, and each step of a running loop
\* ends the call or lessens the iterations left, which are never negative.
C19_CallsTerminate ==
    /\ []IterationsBounded
    /\ [][LoopStep]_vars

\* A call that made an iteration for each of the 15 units and returned.
C19_Witness ==
    /\ pc = "returned"
    /\ call.op = "select_topics"
    /\ outcome.kind = "return"
    /\ LoopIterations = 15
    /\ Len(CallEntry.units) = 15

\* ------------------------------------------------------------- weightages

\* the entries of the catalog
CatalogEntries ==
    {syllabus_data[b][c][s] :
        <<b, c, s>> \in {<<b, c, s>> \in Boards \X ClassLevels \X Subjects :
                            KeyPresent(b, c, s)}}

\* C21: every unit of the three bundled entries has a positive integer weightage,
\* and the weightage sum of a non-empty selection of units is positive.
C21_PositiveWeightages ==
    /\ Cardinality(CatalogEntries) = 3
    /\ \A entry \in CatalogEntries :
          \A i \in 1..Len(entry.units) :
              /\ entry.units[i].weightage \in Nat
              /\ entry.units[i].weightage > 0
    /\ (call.op = "select_topics" /\ selected_units # <<>>) =>
          /\ total_weightage = SumWeightage(selected_units)
          /\ total_weightage > 0

\* Two units selected, of weightages 6 and 5.
C21_Witness ==
    /\ pc = "select_topics"
    /\ Len(selected_units) = 2
    /\ selected_units[1].weightage = 6
    /\ total_weightage = 11

\* ----------------------------------------------------------- independence

\* the entry with other units, and with another paper pattern or none
WithUnits(entry, units) == [entry EXCEPT !.units = units]
WithPattern(entry, pattern) ==
    [f \in DOMAIN entry \cup {"paper_pattern"} |->
        IF f = "paper_pattern" THEN pattern ELSE entry[f]]
WithoutPattern(entry) == [f \in DOMAIN entry \ {"paper_pattern"} |-> entry[f]]

\* the entry of the call with its units cut to the first n, n up to MaxUnits
OtherUnits == {WithUnits(CallEntry, SubSeq(CallEntry.units, 1, n)) : n \in 0..MaxUnits}

\* the entry of the call without a pattern, and with each beginning of the bundled
\* Mathematics pattern
OtherPatterns ==
    {WithoutPattern(CallEntry)}
        \cup {WithPattern(CallEntry, SubSeq(MathematicsPattern, 1, k)) :
                  k \in 0..Len(MathematicsPattern)}

\* C22: topic allocation and section distribution do not influence each other: the
\* result of select_topics is the same for an entry with any other paper pattern
\* (it has no difficulty mix among its arguments), the result of
\* get_question_distribution is the same for an entry with any other units (it
\* has no topic preferences among its arguments); the two sums of marks of one
\* request are not tied to each other.
C22_AllocationAndDistributionIndependent ==
    /\ SelectTopicsReturned =>
          /\ DOMAIN call = {"op", "board", "class_level", "subject", "total_marks",
                            "topic_preferences"}
          /\ \A entry \in OtherPatterns :
                SelectTopicsOn(entry, call.total_marks, call.topic_preferences)
                    = outcome.value
    /\ (pc = "returned" /\ call.op = "get_question_distribution"
            /\ outcome.kind = "return") =>
          /\ DOMAIN call = {"op", "board", "class_level", "subject", "total_marks",
                            "difficulty_distribution"}
          /\ \A entry \in OtherUnits :
                QuestionDistributionOn(entry, call.total_marks,
                                       call.difficulty_distribution)
                    = outcome.value

\* For the Mathematics entry and 80 marks the caller has kept topic allocations that
\* add up to 79 and is returned sections that add up to 80.
C22_Witness ==
    /\ pc = "returned"
    /\ call.op = "get_question_distribution"
    /\ outcome.kind = "return"
    /\ caller.kept.call.op = "select_topics"
    /\ caller.kept.outcome.kind = "return"
    /\ caller.kept.call.subject = call.subject
    /\ caller.kept.call.board = call.board
    /\ caller.kept.call.total_marks = 80
    /\ call.total_marks = 80
    /\ SumAllocated(caller.kept.outcome.value) = 79
    /\ SumSectionMarks(outcome.value) = 80

\* ------------------------------------------------- the fill of any pattern

QuestionDistributionRuns == call.op = "get_question_distribution"

QuestionDistributionReturned ==
    /\ pc = "returned"
    /\ call.op = "get_question_distribution"
    /\ outcome.kind = "return"

\* every section of the pattern has marks of 0 or more
NonNegativeSections(pattern) ==
    \A i \in 1..Len(pattern) :
        pattern[i].config.questions * pattern[i].config.marks_per_question >= 0

\* C23: for a paper pattern of non-negative section marks and total_marks >= 0, the
\* remaining budget is never negative at any step of the fill, it is total_marks
\* less the marks of the sections included so far, and the marks of the returned
\* sections add up to total_marks at most.
C23_FillWithinBudget ==
    (/\ QuestionDistributionRuns
     /\ call.total_marks >= 0
     /\ NonNegativeSections(DeclaredPattern)) =>
        /\ remaining_marks >= 0
        /\ remaining_marks = call.total_marks - SumSectionMarks(question_distribution)
        /\ outcome.kind = "return" =>
              /\ outcome.value = question_distribution
              /\ SumSectionMarks(outcome.value) <= call.total_marks

\* A drawn pattern of three sections of 8, 12 and 8 marks filled with 16 marks: the
\* second is dropped, the budget is used up.
C23_Witness ==
    /\ QuestionDistributionReturned
    /\ call.total_marks = 16
    /\ Len(DeclaredPattern) = 3
    /\ SectionNames(outcome.value) = <<"section_a", "section_c">>
    /\ DeclaredMarks("section_b") = 12
    /\ SumSectionMarks(outcome.value) = 16
    /\ remaining_marks = 0

\* ------------------------------------------------- sections dropped, the fill goes on

\* the declared sections the returned distribution holds, as places in the pattern
IncludedPlaces(distribution) ==
    {i \in 1..Len(DeclaredPattern) :
        \E j \in 1..Len(distribution) : distribution[j].section = DeclaredPattern[i].section}

\* the marks of the included sections declared before place i
IncludedBefore(distribution, i) ==
    SumSectionMarks(SelectSeq(distribution,
        LAMBDA s : \E k \in 1..(i - 1) : DeclaredPattern[k].section = s.section))

PlaceMarks(i) ==
    DeclaredPattern[i].config.questions * DeclaredPattern[i].config.marks_per_question

\* the declared section names kept where the distribution holds them
DeclaredNamesIn(distribution) ==
    SelectSeq(SectionNames(DeclaredPattern),
              LAMBDA n : \E j \in 1..Len(distribution) : distribution[j].section = n)

BundledMathematicsPattern ==
    /\ call.board = "CBSE" /\ call.class_level = "class_10" /\ call.subject = "Mathematics"
    /\ SectionNames(DeclaredPattern) = <<"section_a", "section_b", "section_c", "section_d">>
    /\ PlaceMarks(1) = 20 /\ PlaceMarks(2) = 12 /\ PlaceMarks(3) = 24 /\ PlaceMarks(4) = 24

\* C24: in the returned distribution a declared section is included exactly when its
\* marks fit the budget left by the sections included before it, whether or not a
\* section before it was dropped; the included sections are a subsequence of the
\* pattern in declaration order; and the bundled CBSE class_10 Mathematics pattern
\* filled with 12 marks gives section_b alone.
C24_DropDoesNotStopFill ==
    QuestionDistributionReturned =>
        /\ \A i \in 1..Len(DeclaredPattern) :
              (i \in IncludedPlaces(outcome.value)) <=>
                  (PlaceMarks(i) <= call.total_marks - IncludedBefore(outcome.value, i))
        /\ SectionNames(outcome.value) = DeclaredNamesIn(outcome.value)
        /\ (BundledMathematicsPattern /\ call.total_marks = 12) =>
              SectionNames(outcome.value) = <<"section_b">>

\* The bundled Mathematics pattern filled with 12 marks: section_a of 20 marks is
\* dropped, section_b of 12 marks is included after it.
C24_Witness ==
    /\ QuestionDistributionReturned
    /\ BundledMathematicsPattern
    /\ call.total_marks = 12
    /\ 1 \notin IncludedPlaces(outcome.value)
    /\ IncludedPlaces(outcome.value) = {2}
    /\ SumSectionMarks(outcome.value) = 12

\* ------------------------------------------------- the marks lost to flooring

\* total_marks less the marks the returned allocations add up to
MarksLost == call.total_marks - SumAllocated(outcome.value)

\* C25: select_topics called with total_marks >= 0 and returning n >= 1 allocations
\* loses fewer than n marks to flooring and none is gained, 0 <= total_marks -
\* sum(allocated_marks) < n, and every allocated_marks is in 0..total_marks.
C25_FlooringLoss ==
    (/\ SelectTopicsReturned
     /\ call.total_marks >= 0
     /\ Len(outcome.value) >= 1) =>
        /\ 0 <= MarksLost
        /\ MarksLost < Len(outcome.value)
        /\ \A i \in 1..Len(outcome.value) :
              /\ outcome.value[i].allocated_marks >= 0
              /\ outcome.value[i].allocated_marks <= call.total_marks

\* All 15 units of CBSE class_10 Mathematics with 80 marks: 71 are allocated, 9
\* are lost.
C25_Witness ==
    /\ SelectTopicsReturned
    /\ CallOnMathematics
    /\ call.total_marks = 80
    /\ Len(outcome.value) = 15
    /\ SumAllocated(outcome.value) = 71
    /\ MarksLost = 9

\* ------------------------------------------------- one unit selected

\* C26: select_topics returning one allocation, a single unit selected, gives it the
\* whole of total_marks, whatever the weightage of the unit.
C26_SingleUnitTakesAll ==
    (SelectTopicsReturned /\ Len(outcome.value) = 1) =>
        /\ Len(selected_units) = 1
        /\ outcome.value[1].allocated_marks = call.total_marks

\* Trigonometry of CBSE class_10 Mathematics alone, 5 of the 66 of the entry, with
\* 80 marks.
C26_Witness ==
    /\ SelectTopicsReturned
    /\ CallOnMathematics
    /\ call.topic_preferences = Some(<<"Trigonometry">>)
    /\ call.total_marks = 80
    /\ Len(outcome.value) = 1
    /\ selected_units[1].weightage = 5
    /\ outcome.value[1].unit_name = "Trigonometry"
    /\ outcome.value[1].allocated_marks = 80

\* ------------------------------------------------- entries without a paper pattern

\* the call is on one of the two bundled entries that declare no paper pattern
CallOnScienceOrICSE ==
    /\ call.class_level = "class_10"
    /\ \/ call.board = "CBSE" /\ call.subject = "Science"
       \/ call.board = "ICSE" /\ call.subject = "Mathematics"

CallEntryWithoutPattern == CallKeyPresent /\ "paper_pattern" \notin DOMAIN CallEntry

\* C27: get_question_distribution called on an entry of the catalog that declares no
\* paper pattern, as CBSE class_10 Science and ICSE class_10 Mathematics, includes
\* no section at any step and, once ended, has returned the empty mapping and not
\* raised, whatever total_marks.
C27_NoPatternEmptyMapping ==
    /\ (QuestionDistributionRuns /\ CallOnScienceOrICSE) => CallEntryWithoutPattern
    /\ (QuestionDistributionRuns /\ CallEntryWithoutPattern) =>
          /\ pc # "idle"
          /\ question_distribution = <<>>
          /\ pc = "returned" => outcome = Return(EmptyDict)

\* ICSE class_10 Mathematics asked for 80 marks: the empty mapping.
C27_Witness ==
    /\ QuestionDistributionReturned
    /\ call.board = "ICSE" /\ call.class_level = "class_10" /\ call.subject = "Mathematics"
    /\ call.total_marks = 80
    /\ "units" \in DOMAIN CallEntry
    /\ "paper_pattern" \notin DOMAIN CallEntry
    /\ outcome.value = <<>>

\* ------------------------------------------------- allocation against weightage

\* C28: in one result of select_topics with total_marks >= 0, the allocations stand
\* for the selected units one by one, a unit of a weightage greater than or equal
\* to another's has allocated_marks greater than or equal to the other's, and units
\* of equal weightage have equal allocated_marks.
C28_MonotoneInWeightage ==
    (SelectTopicsReturned /\ call.total_marks >= 0) =>
        /\ AllocationNames(outcome.value) = UnitNames(selected_units)
        /\ \A i, j \in 1..Len(outcome.value) :
              /\ selected_units[i].weightage >= selected_units[j].weightage =>
                    outcome.value[i].allocated_marks >= outcome.value[j].allocated_marks
              /\ selected_units[i].weightage = selected_units[j].weightage =>
                    outcome.value[i].allocated_marks = outcome.value[j].allocated_marks

\* All units of CBSE class_10 Mathematics with 80 marks: the first and the third, of
\* weightage 6 both, get 7 each, the second, of weightage 3, gets 4.
C28_Witness ==
    /\ SelectTopicsReturned
    /\ CallOnMathematics
    /\ call.total_marks = 80
    /\ Len(outcome.value) = 15
    /\ selected_units[1].weightage = 6 /\ selected_units[3].weightage = 6
    /\ selected_units[2].weightage < 6
    /\ outcome.value[1].allocated_marks = 7 /\ outcome.value[3].allocated_marks = 7
    /\ outcome.value[2].allocated_marks = 4

\* ------------------------------------------------- the warnings together

\* the place of a warning in the fixed order total-marks, duration, limited-topics
WarningRank(w) ==
    IF IsMarksWarning(w) THEN 1 ELSE IF IsDurationWarning(w) THEN 2
    ELSE IF IsTopicsWarning(w) THEN 3 ELSE 0

Count(b) == IF b THEN 1 ELSE 0

\* C29: the warnings validate_paper_requirements returns are empty exactly when the
\* requested total marks and duration are the canonical ones of the entry and the
\* entry has 3 units or more; otherwise there are 1 to 3 of them, one for each test
\* that fails, in the order total-marks, duration, limited-topics.
C29_WarningsEmptyIffAllPass ==
    ValidateReturned =>
        LET warnings == outcome.value.warnings
            marks    == call.total_marks # DictGet(CallEntry, "total_marks", 80)
            duration == call.duration # DictGet(CallEntry, "duration", "3 hours")
            topics   == Len(DictGet(CallEntry, "units", <<>>)) < 3
        IN  /\ (warnings = <<>>) <=> (~marks /\ ~duration /\ ~topics)
            /\ warnings # <<>> => Len(warnings) \in 1..3
            /\ Len(warnings) = Count(marks) + Count(duration) + Count(topics)
            /\ \A i \in 1..Len(warnings) : WarningRank(warnings[i]) \in 1..3
            /\ \A i, j \in 1..Len(warnings) :
                  i < j => WarningRank(warnings[i]) < WarningRank(warnings[j])

\* An entry of two units asked with other marks and another duration: the three
\* warnings, in their order.
C29_Witness ==
    /\ ValidateReturned
    /\ Len(DictGet(CallEntry, "units", <<>>)) = 2
    /\ Len(outcome.value.warnings) = 3
    /\ IsMarksWarning(outcome.value.warnings[1])
    /\ IsDurationWarning(outcome.value.warnings[2])
    /\ IsTopicsWarning(outcome.value.warnings[3])

\* ------------------------------------------------- unknown keys

\* the three operations that look the entry up before they compute
LooksEntryUp ==
    call.op \in {"select_topics", "get_question_distribution",
                 "validate_paper_requirements"}

\* nothing of the allocation or of the fill has been computed
NothingComputed ==
    /\ selected_units = <<>> /\ total_weightage = 0 /\ topic_distribution = <<>>
    /\ paper_pattern = <<>> /\ question_distribution = <<>> /\ remaining_marks = 0
    /\ idx = 0

\* C30: select_topics, get_question_distribution and validate_paper_requirements
\* called with a key the catalog does not hold end with the ValueError of
\* get_syllabus and with nothing computed: no loop is entered, and no empty list,
\* empty mapping or validation result is returned.
C30_UnknownKeyFailsFirst ==
    (LooksEntryUp /\ ~CallKeyPresent) =>
        /\ pc = "returned"
        /\ outcome = Raise("ValueError")
        /\ NothingComputed

\* get_question_distribution asked for class_9 of CBSE, a board the catalog holds,
\* with 80 marks.
C30_Witness ==
    /\ pc = "returned"
    /\ call.op = "get_question_distribution"
    /\ call.board = "CBSE" /\ call.class_level = "class_9" /\ call.subject = "Mathematics"
    /\ call.total_marks = 80
    /\ ~CallKeyPresent
    /\ outcome.kind = "raise"
    /\ question_distribution = <<>>

====
